---- MODULE Spec2Model ----
(***************************************************************************)
(* Model of the intelligent-document-auditor: the two RAG engines          *)
(* (rag_engines/vector_engine.py, rag_engines/tree_engine.py), the         *)
(* PerformanceTracker and QueryResult (utils/performance_tracker.py), the  *)
(* DocumentProcessor (utils/document_processor.py) and the Streamlit       *)
(* script (app.py).                                                        *)
(*                                                                         *)
(* time.time() is the variable now; it never decreases.  The llama_index,  *)
(* pypdf and Ollama backends are the environment: every call into them     *)
(* either returns or raises, chosen nondeterministically.                  *)
(***************************************************************************)
EXTENDS Integers, Sequences, FiniteSets, TLC

VARIABLES
    now,            \* time.time()
    Settings,       \* llama_index.core.Settings, the process-wide singleton
    fs,             \* the file system under the two temporary directories
    engines,        \* the engine instances of the engine-level specification
    built,          \* history: per instance, whether a build_index() call returned
    failedBuild,    \* history: per instance, whether a build_index() call raised
    lastBuilt,      \* history: per instance, what the last such call returned and left
    lastOp,         \* history: the last engine operation and its outcome
    session_state,  \* st.session_state of app.py
    uploaded_file,  \* the file_uploader widget's UploadedFile (or none)
    run,            \* history: what the last script run displayed and called
    metrics,        \* PerformanceTracker.metrics of the tracker specification
    scopes,         \* the open track_time scopes, innermost last
    lastExit,       \* history: the last track_time scope that exited
    result,         \* a QueryResult of the get_source_text specification
    source_text,    \* what get_source_text() returned for it
    seconds,        \* the argument of format_time(), in ticks
    formatted,      \* what format_time() returned for it
    called          \* history: the utility method that returned last

vars == <<now, Settings, fs, engines, built, failedBuild, lastBuilt, lastOp,
          session_state, uploaded_file, run, metrics, scopes, lastExit,
          result, source_text, seconds, formatted, called>>

engineVars == <<Settings, fs, engines, built, failedBuild, lastBuilt, lastOp>>
appVars == <<session_state, uploaded_file, run>>
trackerVars == <<metrics, scopes, lastExit>>
utilVars == <<result, source_text, seconds, formatted, called>>

----------------------------------------------------------------------------
(* Bounds of the model *)

MaxClock == 2       \* time.time() stays within 0..MaxClock
MaxDocs == 2        \* documents lists hold 1..MaxDocs texts
MaxDepth == 2       \* track_time scopes open at once
MaxNodes == 4       \* a QueryResult holds 0..MaxNodes source nodes
MaxDelta == 3       \* format_time() is tried up to MaxDelta steps off each anchor

----------------------------------------------------------------------------
(* Values *)

Variants == {"Vector", "Tree"}
ModelNames == {"llama3.1", "mistral"}
Texts == {<<"A">>, <<"B">>}     \* texts are sequences of characters
EngineIds == {1, 2}

Min(a, b) == IF a < b THEN a ELSE b

\* the i-th text of a list of texts
TextAt(i) == IF i % 2 = 1 THEN <<"A">> ELSE <<"B">>

\* the documents lists handed to build_index(), the source nodes of a response
DocLists == {[i \in 1..n |-> TextAt(i)] : n \in 1..MaxDocs}
NodeLists == {<<>>, <<TextAt(1)>>}

\* how long a call into a backend takes
Durations == {0, 1}

\* the model name of the widget and of the constructors' default
DefaultModel == "llama3.1"
Responses == {"answer"}

\* self.index = None
NoIndex == [kind |-> "None", docs |-> <<>>, llm |-> "none", chunk_size |-> 0]

\* llama_index's defaults, before any engine was constructed
DefaultSettings == [llm |-> "default", embed_model |-> "default", chunk_size |-> 0]

\* an engine slot no constructor has filled yet
NoEngine == [variant |-> "none", model_name |-> "none", index |-> NoIndex,
             query_engine |-> "None", build_time |-> 0]

\* the chunk size initialize_llm_and_embeddings() puts into Settings
VectorChunkSize == 512
TreeChunkSize == 1024

ChunkSizeOf(variant) == IF variant = "Vector" THEN VectorChunkSize ELSE TreeChunkSize

\* temp_dir of build_index()
TempDirOf(variant) == IF variant = "Vector" THEN "temp_docs" ELSE "temp_docs_tree"
TempDirs == {"temp_docs", "temp_docs_tree"}

\* the index class build_index() instantiates
IndexKindOf(variant) == IF variant = "Vector" THEN "VectorStoreIndex" ELSE "TreeIndex"

\* A directory: whether it exists, and its files doc_<i>.txt as i -> content
NoDir == [exists |-> FALSE, files |-> <<>>]

----------------------------------------------------------------------------
(* Engine construction: __init__ and initialize_llm_and_embeddings *)

\* initialize_llm_and_embeddings(): Ollama(...) and HuggingFaceEmbedding(...)
\* are built first; only then are the three Settings fields assigned.
initialize_llm_and_embeddings(model_name, variant, settings, backend_ok) ==
    IF backend_ok
    THEN [outcome |-> "return",
          settings |-> [llm |-> model_name,
                        embed_model |-> "BAAI/bge-small-en-v1.5",
                        chunk_size |-> ChunkSizeOf(variant)]]
    ELSE [outcome |-> "raise", settings |-> settings]

\* __init__: the fields, then initialize_llm_and_embeddings()
EngineInit(variant, model_name) ==
    [variant |-> variant, model_name |-> model_name, index |-> NoIndex,
     query_engine |-> "None", build_time |-> 0]

----------------------------------------------------------------------------
(* build_index *)

\* where a build_index() call can raise; "none": it returns
FailPoints == {"none", "makedirs", "open", "write", "load", "remove", "rmdir", "index"}

\* the files of d after the documents 1..k were written as doc_0 .. doc_(k-1)
WriteDocs(files, documents, k) ==
    [i \in (DOMAIN files) \cup {j - 1 : j \in 1..k} |->
        IF i + 1 \in 1..k THEN documents[i + 1] ELSE files[i]]

\* f.write() raised on document k+1: open() has truncated doc_k.txt
Truncate(files, k) ==
    [i \in (DOMAIN files) \cup {k} |-> IF i = k THEN <<>> ELSE files[i]]

\* os.remove() of doc_0 .. doc_(k-1)
RemoveDocs(files, k) ==
    [i \in (DOMAIN files) \ {j - 1 : j \in 1..k} |-> files[i]]

\* reader.load_data(): one document per input file, with the file's content
LoadData(files, n) == [j \in 1..n |-> files[j - 1]]

\* time.time() - start_time
Elapsed(start_time, end_time) == end_time - start_time

\* a variant of is_initialized() that tests the query_engine attribute, which
\* no method ever assigns
is_initialized_QueryEngine(self) == self.query_engine # "None"

\* is_initialized(): self.index is not None
is_initialized(self) == self.index.kind # "None"

\* get_build_time()
get_build_time(self) == self.build_time

\* What build_index() leaves behind when it stops at `fail` (for the steps
\* that run once per document: at document number k, counted from 0):
\* the directory, and the documents the reader loaded.
\*   os.makedirs(temp_dir, exist_ok=True); the write loop; reader.load_data();
\*   the os.remove loop; os.rmdir(temp_dir), which raises on a directory that
\*   still holds a file of an earlier call.
BuildFiles(dir, documents, fail, k) ==
    LET n == Len(documents)
        made == [exists |-> TRUE, files |-> dir.files]
        written == [made EXCEPT !.files = WriteDocs(dir.files, documents, n)]
        removed == [made EXCEPT !.files = RemoveDocs(written.files, n)]
    IN  IF fail = "makedirs" THEN [dir |-> dir, raised |-> TRUE]
        ELSE IF fail = "open" THEN
            [dir |-> [made EXCEPT !.files = WriteDocs(dir.files, documents, k)],
             raised |-> TRUE]
        ELSE IF fail = "write" THEN
            [dir |-> [made EXCEPT !.files =
                        Truncate(WriteDocs(dir.files, documents, k), k)],
             raised |-> TRUE]
        ELSE IF fail = "load" THEN [dir |-> written, raised |-> TRUE]
        ELSE IF fail = "remove" THEN
            [dir |-> [made EXCEPT !.files = RemoveDocs(written.files, k)],
             raised |-> TRUE]
        ELSE IF fail = "rmdir" \/ DOMAIN removed.files # {} THEN
            [dir |-> removed, raised |-> TRUE]
        ELSE [dir |-> NoDir, raised |-> FALSE]

\* self.index = <Index>.from_documents(documents=docs, ..., llm=Settings.llm, ...):
\* the language model is the one Settings holds at the time of the call; the
\* chunk size is that of the SentenceSplitter the method makes itself
FromDocuments(variant, docs, settings) ==
    [kind |-> IndexKindOf(variant), docs |-> docs, llm |-> settings.llm,
     chunk_size |-> ChunkSizeOf(variant)]

\* a variant of build_index() that refuses to build a second time
build_index_RejectsRebuild(self, settings, dir, documents, start_time, end_time, fail, k) ==
    LET f == BuildFiles(dir, documents, fail, k)
        docs == LoadData(WriteDocs(dir.files, documents, Len(documents)),
                         Len(documents))
    IN  IF self.index.kind # "None"
        THEN [outcome |-> "raise", engine |-> self, dir |-> dir, ret |-> 0]
        ELSE IF f.raised \/ fail = "index"
        THEN [outcome |-> "raise", engine |-> self, dir |-> f.dir, ret |-> 0]
        ELSE [outcome |-> "return",
              engine |-> [self EXCEPT
                            !.index = FromDocuments(self.variant, docs, settings),
                            !.build_time = Elapsed(start_time, end_time)],
              dir |-> f.dir, ret |-> Elapsed(start_time, end_time)]

\* a variant of build_index() that assigns self.index before the index is
\* complete, so that a failing from_documents() leaves a handle behind
build_index_KeepsPartialIndex(self, settings, dir, documents, start_time, end_time, fail, k) ==
    LET f == BuildFiles(dir, documents, fail, k)
        docs == LoadData(WriteDocs(dir.files, documents, Len(documents)),
                         Len(documents))
    IN  IF f.raised
        THEN [outcome |-> "raise", engine |-> self, dir |-> f.dir, ret |-> 0]
        ELSE IF fail = "index"
        THEN [outcome |-> "raise",
              engine |-> [self EXCEPT
                            !.index = FromDocuments(self.variant, docs, settings)],
              dir |-> f.dir, ret |-> 0]
        ELSE [outcome |-> "return",
              engine |-> [self EXCEPT
                            !.index = FromDocuments(self.variant, docs, settings),
                            !.build_time = Elapsed(start_time, end_time)],
              dir |-> f.dir, ret |-> Elapsed(start_time, end_time)]

\* build_index(documents): start_time is read first; every exception of the
\* body is re-raised as "Failed to build ... index"; self.index and
\* self.build_time are assigned only after from_documents() has returned.
build_index(self, settings, dir, documents, start_time, end_time, fail, k) ==
    LET f == BuildFiles(dir, documents, fail, k)
        docs == LoadData(WriteDocs(dir.files, documents, Len(documents)),
                         Len(documents))
        build_time == Elapsed(start_time, end_time)
    IN  IF f.raised \/ fail = "index"
        THEN [outcome |-> "raise", engine |-> self, dir |-> f.dir, ret |-> 0]
        ELSE [outcome |-> "return",
              engine |-> [self EXCEPT
                            !.index = FromDocuments(self.variant, docs, settings),
                            !.build_time = build_time],
              dir |-> f.dir, ret |-> build_time]

----------------------------------------------------------------------------
(* query *)

NoResult == [response |-> "none", source_nodes |-> <<>>, execution_time |-> 0]

\* QueryResult(response, source_nodes, execution_time)
QueryResult(response, source_nodes, execution_time) ==
    [response |-> response, source_nodes |-> source_nodes,
     execution_time |-> execution_time]

\* a variant of the guard of query() with the test inverted
IndexNotBuilt_Inverted(self) == self.index.kind # "None"

\* the guard of query(): if self.index is None: raise
IndexNotBuilt(self) == self.index.kind = "None"

\* query(query_text): the guard comes before start_time is read and before
\* the index is asked for a query engine; an exception of the backend is
\* re-raised as "Query failed".  backend tells whether the index was used.
query(self, settings, start_time, end_time, backend_ok, response, source_nodes) ==
    IF IndexNotBuilt(self)
    THEN [outcome |-> "raise", error |-> "Index not built", backend |-> FALSE,
          llm |-> "none", result |-> NoResult]
    ELSE IF ~backend_ok
    THEN [outcome |-> "raise", error |-> "Query failed", backend |-> TRUE,
          llm |-> settings.llm, result |-> NoResult]
    ELSE [outcome |-> "return", error |-> "none", backend |-> TRUE,
          llm |-> settings.llm,
          result |-> QueryResult(response, source_nodes,
                                 Elapsed(start_time, end_time))]

----------------------------------------------------------------------------
(* The engine-level specification: engine instances driven directly, in any *)
(* order, as a caller of the two classes may do.                            *)

NoOp == [op |-> "none", e |-> 0, outcome |-> "none", backend |-> FALSE,
         wasBuilt |-> FALSE, ret |-> 0, fail |-> "none", docs |-> <<>>,
         wrote |-> {}, madeDir |-> FALSE, llm |-> "none", chunk_size |-> 0]

\* nothing built yet
NoBuild == [ret |-> 0, index |-> NoIndex]

\* the instance the engine-level specification drives; constructing again
\* replaces it by a new instance
Driven == {1}

\* the steps of build_index() that run once per document
PerDocument == {"open", "write", "remove"}

\* the documents whose file a build_index() call stopping at (fail, k) created
Wrote(n, fail, k) ==
    IF fail = "makedirs" THEN {}
    ELSE IF fail = "open" THEN {j - 1 : j \in 1..k}
    ELSE IF fail = "write" THEN {j - 1 : j \in 1..(k + 1)}
    ELSE {j - 1 : j \in 1..n}

EngineSpecInit ==
    /\ now = 0
    /\ Settings = DefaultSettings
    /\ fs = [d \in TempDirs |-> NoDir]
    /\ engines = [e \in EngineIds |-> NoEngine]
    /\ built = [e \in EngineIds |-> FALSE]
    /\ failedBuild = [e \in EngineIds |-> FALSE]
    /\ lastBuilt = [e \in EngineIds |-> NoBuild]
    /\ lastOp = NoOp

\* VectorRAGEngine(model_name) / TreeRAGEngine(model_name): slot e holds the
\* instances of one class, a new instance replaces the one before it
Construct(e, variant, model_name, backend_ok) ==
    LET r == initialize_llm_and_embeddings(model_name, variant, Settings, backend_ok)
    IN  /\ engines[e] = NoEngine \/ engines[e].variant = variant
        /\ Settings' = r.settings
        /\ IF r.outcome = "return"
           THEN /\ engines' = [engines EXCEPT ![e] = EngineInit(variant, model_name)]
                /\ built' = [built EXCEPT ![e] = FALSE]
                /\ failedBuild' = [failedBuild EXCEPT ![e] = FALSE]
                /\ lastBuilt' = [lastBuilt EXCEPT ![e] = NoBuild]
           ELSE UNCHANGED <<engines, built, failedBuild, lastBuilt>>
        /\ lastOp' = [NoOp EXCEPT !.op = "construct", !.e = e, !.outcome = r.outcome]
        /\ UNCHANGED <<now, fs>>

\* engines[e].build_index(documents)
BuildIndex(e, documents, fail, k, d) ==
    LET self == engines[e]
        path == TempDirOf(self.variant)
    IN  /\ self # NoEngine
        /\ now + d <= MaxClock
        /\ \E r \in {build_index(self, Settings, fs[path], documents, now, now + d,
                                 fail, k)} :
            /\ now' = now + d
            /\ engines' = [engines EXCEPT ![e] = r.engine]
            /\ fs' = [fs EXCEPT ![path] = r.dir]
            /\ IF r.outcome = "return"
               THEN /\ built' = [built EXCEPT ![e] = TRUE]
                    /\ UNCHANGED failedBuild
                    /\ lastBuilt' = [lastBuilt EXCEPT ![e] =
                                        [ret |-> r.ret, index |-> r.engine.index]]
               ELSE /\ failedBuild' = [failedBuild EXCEPT ![e] = TRUE]
                    /\ UNCHANGED <<built, lastBuilt>>
            /\ lastOp' = [NoOp EXCEPT !.op = "build", !.e = e, !.outcome = r.outcome,
                                      !.wasBuilt = built[e],
                                      !.ret = r.ret, !.fail = fail,
                                      !.docs = documents,
                                      !.wrote = Wrote(Len(documents), fail, k),
                                      !.madeDir = (fail # "makedirs" /\ ~fs[path].exists),
                                      !.llm = IF r.outcome = "return"
                                              THEN r.engine.index.llm ELSE "none",
                                      !.chunk_size = IF r.outcome = "return"
                                                     THEN r.engine.index.chunk_size
                                                     ELSE 0]
        /\ UNCHANGED Settings

\* engines[e].query(query_text)
Query(e, backend_ok, response, source_nodes, d) ==
    LET self == engines[e]
    IN  /\ self # NoEngine
        /\ now + d <= MaxClock
        /\ \E r \in {query(self, Settings, now, now + d, backend_ok, response,
                            source_nodes)} :
            /\ now' = IF r.backend THEN now + d ELSE now
            /\ lastOp' = [NoOp EXCEPT !.op = "query", !.e = e, !.outcome = r.outcome,
                                      !.wasBuilt = built[e],
                                      !.backend = r.backend,
                                      !.ret = r.result.execution_time,
                                      !.llm = r.llm]
        /\ UNCHANGED <<Settings, fs, engines, built, failedBuild, lastBuilt>>

EngineNext ==
    \/ \E e \in Driven, v \in Variants, ok \in BOOLEAN :
          Construct(e, v, DefaultModel, ok) /\ UNCHANGED <<appVars, trackerVars, utilVars>>
    \/ \E e \in Driven, docs \in DocLists, fail \in FailPoints, d \in Durations :
          \E k \in 0..(Len(docs) - 1) :
             /\ (fail \notin PerDocument => k = 0)
             /\ BuildIndex(e, docs, fail, k, d)
             /\ UNCHANGED <<appVars, trackerVars, utilVars>>
    \/ \E e \in Driven, ok \in BOOLEAN, resp \in Responses, nodes \in NodeLists,
          d \in Durations :
          Query(e, ok, resp, nodes, d) /\ UNCHANGED <<appVars, trackerVars, utilVars>>

\* Several instances in one process: both slots are driven and a constructor
\* is given either model name.  A build either returns or fails in
\* from_documents(), so that no file is left behind.
InstancesNext ==
    \/ \E e \in EngineIds, v \in Variants, m \in ModelNames, ok \in BOOLEAN :
          Construct(e, v, m, ok) /\ UNCHANGED <<appVars, trackerVars, utilVars>>
    \/ \E e \in EngineIds, fail \in {"none", "index"}, d \in Durations :
          BuildIndex(e, <<TextAt(1)>>, fail, 0, d)
          /\ UNCHANGED <<appVars, trackerVars, utilVars>>
    \/ \E e \in EngineIds, ok \in BOOLEAN, resp \in Responses, d \in Durations :
          Query(e, ok, resp, <<>>, d) /\ UNCHANGED <<appVars, trackerVars, utilVars>>

----------------------------------------------------------------------------
(* PerformanceTracker *)

OpNames == {"vector_query", "tree_query"}

\* PerformanceTracker(): self.metrics = {}
EmptyMetrics == [n \in {} |-> 0]

\* a variant of track_time() that stores the time after the yield instead of
\* in a finally block, and so only when the body returns
track_time_exit_OnReturnOnly(m, operation_name, start_time, end_time, body_raised) ==
    IF body_raised THEN m
    ELSE [n \in (DOMAIN m) \cup {operation_name} |->
            IF n = operation_name THEN Elapsed(start_time, end_time) ELSE m[n]]

\* the finally block of track_time(): it runs on every exit of the scope and
\* stores end_time - start_time under operation_name
track_time_exit(m, operation_name, start_time, end_time, body_raised) ==
    [n \in (DOMAIN m) \cup {operation_name} |->
        IF n = operation_name THEN Elapsed(start_time, end_time) ELSE m[n]]

\* what leaves the with statement: contextlib re-raises the body's exception
\* after the generator's finally block has run
track_time_propagates(body_raised) == body_raised

\* get_metric(): self.metrics.get(operation_name, 0.0)
get_metric(m, operation_name) ==
    IF operation_name \in DOMAIN m THEN m[operation_name] ELSE 0

NoExit == [exited |-> FALSE, elapsed |-> 0, raised |-> FALSE, propagated |-> FALSE,
           replaced |-> FALSE]

TrackerSpecInit ==
    /\ metrics = EmptyMetrics
    /\ scopes = <<>>
    /\ lastExit = [n \in OpNames |-> NoExit]

\* with tracker.track_time(name): start_time = time.time(), up to the yield
EnterScope(name) ==
    /\ Len(scopes) < MaxDepth
    /\ scopes' = Append(scopes, [name |-> name, start_time |-> now])
    /\ UNCHANGED <<now, metrics, lastExit>>

\* the body of the innermost scope ends, by returning or by raising
ExitScope(body_raised) ==
    /\ scopes # <<>>
    /\ LET top == scopes[Len(scopes)]
       IN  /\ metrics' = track_time_exit(metrics, top.name, top.start_time, now,
                                              body_raised)
           /\ lastExit' = [lastExit EXCEPT ![top.name] =
                             [exited |-> TRUE,
                              elapsed |-> now - top.start_time,
                              raised |-> body_raised,
                              propagated |-> track_time_propagates(body_raised),
                              replaced |-> lastExit[top.name].exited]]
    /\ scopes' = SubSeq(scopes, 1, Len(scopes) - 1)
    /\ UNCHANGED now

\* time passes
Tick ==
    /\ now < MaxClock
    /\ now' = now + 1
    /\ UNCHANGED <<metrics, scopes, lastExit>>

TrackerNext ==
    \/ \E name \in OpNames : EnterScope(name) /\ UNCHANGED <<engineVars, appVars, utilVars>>
    \/ \E body_raised \in BOOLEAN :
          ExitScope(body_raised) /\ UNCHANGED <<engineVars, appVars, utilVars>>
    \/ Tick /\ UNCHANGED <<engineVars, appVars, utilVars>>

----------------------------------------------------------------------------
(* DocumentProcessor, over an uploaded file: a stream of bytes with a read  *)
(* position.  A PDF is its header, its pages and its end marker.            *)

Byte(tag, text) == [tag |-> tag, text |-> text]

PdfOf(pages) ==
    <<Byte("%PDF", <<>>)>> \o [i \in 1..Len(pages) |-> Byte("page", pages[i])]
        \o <<Byte("%%EOF", <<>>)>>

\* the uploads: not a PDF, a PDF without pages, a PDF whose page tree does
\* not parse, and PDFs of one page
Uploads == {<<Byte("junk", <<>>)>>, PdfOf(<<>>),
            <<Byte("%PDF", <<>>), Byte("badtree", <<>>), Byte("%%EOF", <<>>)>>}
           \cup {PdfOf(<<t>>) : t \in Texts}

NoFile == [present |-> FALSE, data |-> <<>>, pos |-> 0]

\* pdf_file.read(): the bytes from the read position on; the position moves
\* to the end
read(file) ==
    [bytes |-> SubSeq(file.data, file.pos + 1, Len(file.data)),
     file |-> [file EXCEPT !.pos = Len(file.data)]]

\* pdf_file.seek(0)
seek0(file) == [file EXCEPT !.pos = 0]

\* PdfReader(BytesIO(bytes)): raises unless the bytes are a whole PDF
PdfReader(bytes) ==
    [ok |-> /\ Len(bytes) >= 2
            /\ bytes[1].tag = "%PDF"
            /\ bytes[Len(bytes)].tag = "%%EOF",
     bytes |-> bytes]

\* pdf_reader.pages: raises when the page tree does not parse
Pages(reader) ==
    LET inner == SubSeq(reader.bytes, 2, Len(reader.bytes) - 1)
    IN  [ok |-> \A i \in 1..Len(inner) : inner[i].tag = "page",
         pages |-> [i \in 1..Len(inner) |-> inner[i].text]]

\* validate_pdf(pdf_file), for a file object with a read method: seek(0) is
\* the statement after the PdfReader construction, inside the try block
validate_pdf(pdf_file) ==
    LET r == read(pdf_file)
        pdf_reader == PdfReader(r.bytes)
        pages == Pages(pdf_reader)
    IN  IF ~pdf_reader.ok
        THEN [ok |-> FALSE, msg |-> "Invalid PDF file", file |-> r.file]
        ELSE IF ~pages.ok
        THEN [ok |-> FALSE, msg |-> "Invalid PDF file", file |-> seek0(r.file)]
        ELSE IF Len(pages.pages) = 0
        THEN [ok |-> FALSE, msg |-> "PDF file appears to be empty",
              file |-> seek0(r.file)]
        ELSE [ok |-> TRUE, msg |-> "", file |-> seek0(r.file)]

Whitespace == {" ", "\n"}

RECURSIVE lstrip(_)
lstrip(t) == IF t # <<>> /\ Head(t) \in Whitespace THEN lstrip(Tail(t)) ELSE t

RECURSIVE rstrip(_)
rstrip(t) ==
    IF t # <<>> /\ t[Len(t)] \in Whitespace
    THEN rstrip(SubSeq(t, 1, Len(t) - 1)) ELSE t

\* str.strip()
strip(t) == rstrip(lstrip(t))

\* text_content += page.extract_text() + "\n", page by page
RECURSIVE ConcatPages(_)
ConcatPages(pages) ==
    IF pages = <<>> THEN <<>>
    ELSE Head(pages) \o <<"\n">> \o ConcatPages(Tail(pages))

\* extract_text_from_pdf(pdf_file): reads the stream from its position and
\* leaves it at the end; page_ok: page.extract_text() did not raise
extract_text_from_pdf(pdf_file, page_ok) ==
    LET r == read(pdf_file)
        pdf_reader == PdfReader(r.bytes)
        pages == Pages(pdf_reader)
    IN  IF pdf_reader.ok /\ pages.ok /\ page_ok
        THEN [outcome |-> "return", text |-> strip(ConcatPages(pages.pages)),
              file |-> r.file]
        ELSE [outcome |-> "raise", text |-> <<>>, file |-> r.file]

----------------------------------------------------------------------------
(* QueryResult.get_source_text *)

MaxShownSources == 3

RECURSIVE Join(_, _)
Join(sep, texts) ==
    IF texts = <<>> THEN <<>>
    ELSE IF Len(texts) = 1 THEN texts[1]
    ELSE texts[1] \o sep \o Join(sep, Tail(texts))

\* a variant of get_source_text() without the [:3] slice
get_source_text_Unsliced(r) ==
    IF r.source_nodes = <<>> THEN <<"No sources retrieved">>
    ELSE Join(<<"\n---\n">>, r.source_nodes)

\* get_source_text()
get_source_text(r) ==
    IF r.source_nodes = <<>> THEN <<"No sources retrieved">>
    ELSE Join(<<"\n---\n">>,
              SubSeq(r.source_nodes, 1,
                     Min(MaxShownSources, Len(r.source_nodes))))

\* the text of a source node: a text of a document, or empty
NodeTexts == Texts \cup {<<>>}

\* response.source_nodes, each node given by the text the loop takes from it
SourceNodeLists ==
    UNION {[1..n -> NodeTexts] : n \in 0..MaxNodes}

\* no utility method called yet
UtilInit ==
    /\ result = NoResult
    /\ source_text = <<>>
    /\ seconds = 0
    /\ formatted = <<>>
    /\ called = "none"

\* QueryResult(response, source_nodes, execution_time)
NewQueryResult(source_nodes) ==
    /\ result' = QueryResult("answer", source_nodes, 0)
    /\ called' = "QueryResult"
    /\ UNCHANGED <<source_text, seconds, formatted>>

\* result.get_source_text()
GetSourceText ==
    /\ source_text' = get_source_text(result)
    /\ called' = "get_source_text"
    /\ UNCHANGED <<result, seconds, formatted>>

SourceTextNext ==
    \/ \E source_nodes \in SourceNodeLists :
          NewQueryResult(source_nodes)
          /\ UNCHANGED <<now, engineVars, appVars, trackerVars>>
    \/ GetSourceText /\ UNCHANGED <<now, engineVars, appVars, trackerVars>>

----------------------------------------------------------------------------
(* PerformanceTracker.format_time *)

\* A duration is a whole number of ticks of 0.01 ms, a tenth of the last
\* digit that f"{seconds*1000:.1f}ms" shows.
TicksPerSecond == 100 * 1000
TicksPerMinute == 60 * TicksPerSecond

DigitChars == <<"0", "1", "2", "3", "4", "5", "6", "7", "8", "9">>

\* str(n) of a natural number, as its characters
RECURSIVE Digits(_)
Digits(n) ==
    IF n < 10 THEN <<DigitChars[n + 1]>>
    ELSE Digits(n \div 10) \o <<DigitChars[(n % 10) + 1]>>

\* the w digits after the decimal point: n written with leading zeros
RECURSIVE Padded(_, _)
Padded(n, w) ==
    IF w = 0 THEN <<>>
    ELSE Padded(n \div 10, w - 1) \o <<DigitChars[(n % 10) + 1]>>

Pow10(w) == IF w = 0 THEN 1 ELSE IF w = 1 THEN 10 ELSE 100

\* x / q rounded to the nearest whole number; a float that lies on a tie in
\* decimal lies just under or just over it in binary, so tie_up says which
RoundDiv(x, q, tie_up) ==
    LET f == x \div q
        r == x % q
    IN  IF 2 * r > q \/ (2 * r = q /\ tie_up) THEN f + 1 ELSE f

\* f"{v:.<w>f}" of v = n / 10^w
Fixed(n, w) == Digits(n \div Pow10(w)) \o <<".">> \o Padded(n % Pow10(w), w)

\* a variant of format_time() with <= in place of < in its first test
format_time_Leq(secs, tie_up) ==
    IF secs <= TicksPerSecond
    THEN Fixed(RoundDiv(secs, 10, tie_up), 1) \o <<"m", "s">>
    ELSE IF secs < TicksPerMinute
    THEN Fixed(RoundDiv(secs, 1000, tie_up), 2) \o <<"s">>
    ELSE LET minutes == secs \div TicksPerMinute
             rest == secs % TicksPerMinute
         IN  Digits(minutes) \o <<"m", " ">>
             \o Fixed(RoundDiv(rest, 10000, tie_up), 1) \o <<"s">>

\* format_time(seconds)
format_time(secs, tie_up) ==
    IF secs < TicksPerSecond
    THEN Fixed(RoundDiv(secs, 10, tie_up), 1) \o <<"m", "s">>
    ELSE IF secs < TicksPerMinute
    THEN Fixed(RoundDiv(secs, 1000, tie_up), 2) \o <<"s">>
    ELSE LET minutes == secs \div TicksPerMinute
             rest == secs % TicksPerMinute
         IN  Digits(minutes) \o <<"m", " ">>
             \o Fixed(RoundDiv(rest, 10000, tie_up), 1) \o <<"s">>

\* the durations tried: the three documented ones, the two thresholds, zero
\* and two minutes
Anchors ==
    {0, TicksPerSecond \div 2, TicksPerSecond, 123400, TicksPerMinute, 7540000,
     2 * TicksPerMinute}

\* and what lies a few ticks off them, or a few halves of the last digit
\* that the three renderings show
TimeInputs ==
    {t \in {a + k * step : a \in Anchors, k \in (0 - MaxDelta)..MaxDelta,
                           step \in {1, 5, 500, 5000}} : t >= 0}

\* tracker.format_time(secs)
FormatTime(secs, tie_up) ==
    /\ seconds' = secs
    /\ formatted' = format_time(secs, tie_up)
    /\ called' = "format_time"
    /\ UNCHANGED <<result, source_text>>

FormatNext ==
    \E secs \in TimeInputs, tie_up \in BOOLEAN :
        FormatTime(secs, tie_up) /\ UNCHANGED <<now, engineVars, appVars, trackerVars>>

\* get_tree_structure_info(): the node count, or an error payload
get_tree_structure_info(self) ==
    IF self.index.kind = "None" THEN [error |-> TRUE, num_nodes |-> 0]
    ELSE [error |-> FALSE, num_nodes |-> Len(self.index.docs)]

----------------------------------------------------------------------------
(* app.py: one run of the script, main(), top to bottom *)

\* an element the run puts on the page
Item(kind, who, text, time) == [kind |-> kind, who |-> who, text |-> text, time |-> time]

\* the elements that show something of a query's result
ResultKinds == {"response", "response_time", "sources", "metric_time", "comparison"}

Abs(x) == IF x < 0 THEN 0 - x ELSE x

\* time_diff = abs(vector_result.execution_time - tree_result.execution_time)
time_diff(vector_time, tree_time) == Abs(vector_time - tree_time)

\* a variant of the comparison with <= in place of <
faster_engine_Leq(vector_time, tree_time) ==
    IF vector_time <= tree_time THEN "Vector" ELSE "Tree"

\* faster_engine = "Vector" if vector_time < tree_time else "Tree"
faster_engine(vector_time, tree_time) ==
    IF vector_time < tree_time THEN "Vector" ELSE "Tree"

\* the session state the first run of a session sets up
InitialSession ==
    [document_processed |-> FALSE, vector_engine |-> NoEngine,
     tree_engine |-> NoEngine, document_text |-> <<>>]

\* The body of `if st.button("Process Document")`: env holds what the
\* backends do in this run.  The except clause shows one error and leaves
\* every assignment made before the exception in place.
ProcessDocument(ss, file, settings, fsys, t, model_name, env) ==
    LET error(stage) == Item("error", stage, <<>>, 0)
        base == [ss |-> ss, file |-> file, settings |-> settings, fs |-> fsys,
                 now |-> t, display |-> <<>>, vbuild |-> "skipped",
                 tbuild |-> "skipped"]
        \* tree_build_time = st.session_state.tree_engine.build_index(documents)
        TreeBuilt(x, s, ss4, fs1, t1, vb, tb) ==
            LET ss5 == [ss4 EXCEPT !.tree_engine = tb.engine]
                fs2 == [fs1 EXCEPT !["temp_docs_tree"] = tb.dir]
                t2 == t1 + env.dt
                vdone == Item("success", "Vector", <<>>, vb.ret)
                tdone == Item("success", "Tree", <<>>, tb.ret)
                done == [base EXCEPT !.file = x.file, !.settings = s, !.fs = fs2,
                                     !.now = t2, !.vbuild = "return"]
            IN  IF tb.outcome = "raise"
                THEN [done EXCEPT !.ss = ss5, !.tbuild = "raise",
                                  !.display = <<vdone, error("tree_build")>>]
                ELSE [done EXCEPT !.ss = [ss5 EXCEPT !.document_processed = TRUE],
                                  !.tbuild = "return",
                                  !.display = <<vdone, tdone,
                                                Item("success", "complete", <<>>, 0)>>]
        \* vector_build_time = st.session_state.vector_engine.build_index(documents)
        VectorBuilt(x, s, ss3, vb) ==
            LET ss4 == [ss3 EXCEPT !.vector_engine = vb.engine]
                fs1 == [fsys EXCEPT !["temp_docs"] = vb.dir]
                t1 == t + env.dv
            IN  IF vb.outcome = "raise"
                THEN [base EXCEPT !.ss = ss4, !.file = x.file, !.settings = s,
                                  !.fs = fs1, !.now = t1, !.vbuild = "raise",
                                  !.display = <<error("vector_build")>>]
                ELSE TreeBuilt(x, s, ss4, fs1, t1, vb,
                               build_index(ss4.tree_engine, s, fs1["temp_docs_tree"],
                                           <<x.text>>, t1, t1 + env.dt, env.tfail, 0))
        \* st.session_state.tree_engine = TreeRAGEngine(model_name=model_name)
        TreeConstructed(x, ss2, vc, tc) ==
            LET ss3 == [ss2 EXCEPT !.tree_engine = EngineInit("Tree", model_name)]
            IN  IF tc.outcome = "raise"
                THEN [base EXCEPT !.ss = ss2, !.file = x.file,
                                  !.settings = vc.settings,
                                  !.display = <<error("tree_init")>>]
                ELSE VectorBuilt(x, tc.settings, ss3,
                                 build_index(ss3.vector_engine, tc.settings,
                                             fsys["temp_docs"], <<x.text>>, t,
                                             t + env.dv, env.vfail, 0))
        \* st.session_state.vector_engine = VectorRAGEngine(model_name=model_name)
        VectorConstructed(x, ss1, vc) ==
            LET ss2 == [ss1 EXCEPT !.vector_engine = EngineInit("Vector", model_name)]
            IN  IF vc.outcome = "raise"
                THEN [base EXCEPT !.ss = ss1, !.file = x.file,
                                  !.display = <<error("vector_init")>>]
                ELSE TreeConstructed(x, ss2, vc,
                         initialize_llm_and_embeddings(model_name, "Tree",
                                                       vc.settings, env.tctor_ok))
        \* text_content = DocumentProcessor.extract_text_from_pdf(uploaded_file)
        Extracted(x) ==
            IF x.outcome = "raise"
            THEN [base EXCEPT !.file = x.file, !.display = <<error("extract")>>]
            ELSE VectorConstructed(x, [ss EXCEPT !.document_text = x.text],
                     initialize_llm_and_embeddings(model_name, "Vector", settings,
                                                   env.vctor_ok))
    IN  Extracted(extract_text_from_pdf(file, env.page_ok))

\* a variant of the gate that asks the Vector engine only
EnginesReady_VectorOnly(ss) == is_initialized(ss.vector_engine)

\* the gate of the Analyze Document step
EnginesReady(ss) ==
    is_initialized(ss.vector_engine) /\ is_initialized(ss.tree_engine)

\* a variant of the step that writes the Vector column as soon as the Vector
\* query has returned, before the Tree query is made
AnalysisDisplay_VectorFirst(vq, tq, show_trace) ==
    LET column(who, r) ==
            <<Item("response_time", who, <<>>, r.execution_time),
              Item("response", who, <<r.response>>, 0)>>
            \o (IF show_trace
                THEN <<Item("sources", who, get_source_text(r), 0)>> ELSE <<>>)
    IN  IF vq.outcome = "raise" THEN <<Item("error", "analysis", <<vq.error>>, 0)>>
        ELSE IF tq.outcome = "raise"
        THEN column("Vector", vq.result) \o <<Item("error", "analysis", <<tq.error>>, 0)>>
        ELSE column("Vector", vq.result) \o column("Tree", tq.result)
             \o <<Item("metric_time", "Vector", <<>>, vq.result.execution_time),
                  Item("metric_time", "Tree", <<>>, tq.result.execution_time),
                  Item("comparison",
                       faster_engine(vq.result.execution_time,
                                     tq.result.execution_time), <<>>,
                       time_diff(vq.result.execution_time, tq.result.execution_time)),
                  Item("info", "differences", <<>>, 0)>>

\* What the try block of the Analyze Document step puts on the page, given
\* the two query outcomes (tq is meaningful only when vq returned): every
\* element is written after both queries, an exception leaves one error.
AnalysisDisplay(vq, tq, show_trace) ==
    LET vr == vq.result
        tr == tq.result
        column(who, r) ==
            <<Item("response_time", who, <<>>, r.execution_time),
              Item("response", who, <<r.response>>, 0)>>
            \o (IF show_trace
                THEN <<Item("sources", who, get_source_text(r), 0)>> ELSE <<>>)
    IN  IF vq.outcome = "raise" THEN <<Item("error", "analysis", <<vq.error>>, 0)>>
        ELSE IF tq.outcome = "raise" THEN <<Item("error", "analysis", <<tq.error>>, 0)>>
        ELSE column("Vector", vr) \o column("Tree", tr)
             \o <<Item("metric_time", "Vector", <<>>, vr.execution_time),
                  Item("metric_time", "Tree", <<>>, tr.execution_time),
                  Item("comparison",
                       faster_engine(vr.execution_time, tr.execution_time), <<>>,
                       time_diff(vr.execution_time, tr.execution_time)),
                  Item("info", "differences", <<>>, 0)>>

\* The body of `if query and st.button("Analyze Document")`.
AnalyzeDocument(ss, settings, t, show_trace, env) ==
    LET t1 == t + env.dvq
        t2 == t1 + env.dtq
        \* with perf_tracker.track_time("tree_query"): tree_result = ...
        TreeQueried(vq, m1, tq) ==
            [display |-> AnalysisDisplay(vq, tq, show_trace),
             calls |-> <<"Vector", "Tree">>,
             outcomes |-> <<vq.outcome, tq.outcome>>,
             metrics |-> track_time_exit(m1, "tree_query", t1, t2,
                                         tq.outcome = "raise"),
             now |-> t2, tracker |-> TRUE]
        \* with perf_tracker.track_time("vector_query"): vector_result = ...
        VectorQueried(vq, m1) ==
            IF vq.outcome = "raise"
            THEN [display |-> AnalysisDisplay(vq, vq, show_trace),
                  calls |-> <<"Vector">>, outcomes |-> <<vq.outcome>>,
                  metrics |-> m1, now |-> t1, tracker |-> TRUE]
            ELSE TreeQueried(vq, m1,
                             query(ss.tree_engine, settings, t1, t2, env.tq_ok,
                                   env.response, env.tnodes))
        Entered(vq) ==
            VectorQueried(vq, track_time_exit(EmptyMetrics, "vector_query", t, t1,
                                              vq.outcome = "raise"))
    IN  IF ~EnginesReady(ss)
        THEN [display |-> <<Item("error", "not_initialized", <<>>, 0)>>,
              calls |-> <<>>, outcomes |-> <<>>, metrics |-> EmptyMetrics,
              now |-> t, tracker |-> FALSE]
        ELSE Entered(query(ss.vector_engine, settings, t, t1, env.vq_ok,
                           env.response, env.vnodes))

\* the sidebar's "Performance Stats", shown once document_processed is set
StatsDisplay(ss) ==
    LET tree_info == get_tree_structure_info(ss.tree_engine)
    IN  <<Item("build_time", "Vector", <<>>, get_build_time(ss.vector_engine)),
          Item("build_time", "Tree", <<>>, get_build_time(ss.tree_engine))>>
        \o (IF tree_info.error THEN <<>>
            ELSE <<Item("tree_nodes", "Tree", <<>>, tree_info.num_nodes)>>)

NoRun ==
    [click |-> "none", display |-> <<>>, calls |-> <<>>, outcomes |-> <<>>,
     metrics |-> EmptyMetrics, tracker |-> FALSE,
     validated |-> FALSE, pos_before |-> 0, pos_after |-> 0, valid |-> FALSE,
     process_button |-> FALSE, analyze_button |-> FALSE,
     processed |-> FALSE, vbuild |-> "skipped", tbuild |-> "skipped",
     analyzed |-> FALSE, partial |-> FALSE]

\* main(): click is the button pressed in this run, if any.  Returns the
\* state the run leaves and the record of what it showed and called.
Main(ss, file, settings, fsys, t, partial, click, model_name, show_trace, penv, aenv) ==
    LET \* the Analyze Document branch, A the outcome of its body
        Analyzed(ran, sidebar, A) ==
            [ran EXCEPT !.now = A.now,
                        !.run.display = sidebar \o A.display,
                        !.run.calls = A.calls,
                        !.run.outcomes = A.outcomes,
                        !.run.metrics = A.metrics,
                        !.run.tracker = A.tracker,
                        !.run.analyzed = TRUE,
                        !.run.analyze_button = TRUE]
        \* from "Display performance stats if processed" on
        MainArea(ran, shown) ==
            LET ss1 == ran.ss
                sidebar == shown \o (IF ss1.document_processed
                                     THEN StatsDisplay(ss1) ELSE <<>>)
            IN  IF ~ss1.document_processed
                THEN [ran EXCEPT !.run.display =
                                   sidebar \o <<Item("info", "upload", <<>>, 0)>>]
                ELSE IF click = "analyze"
                THEN Analyzed(ran, sidebar,
                              AnalyzeDocument(ss1, ran.settings, ran.now, show_trace,
                                              aenv))
                ELSE [ran EXCEPT !.run.display = sidebar,
                                 !.run.analyze_button = TRUE]
        \* the Process Document branch, P the outcome of its body
        Processed(out, P) ==
            MainArea([out EXCEPT
                         !.ss = P.ss, !.file = P.file, !.settings = P.settings,
                         !.fs = P.fs, !.now = P.now,
                         !.run.processed = TRUE,
                         !.run.vbuild = P.vbuild,
                         !.run.tbuild = P.tbuild,
                         !.run.partial =
                             IF P.vbuild = "return" /\ P.tbuild = "raise" THEN TRUE
                             ELSE IF P.vbuild = "return" /\ P.tbuild = "return"
                             THEN FALSE ELSE partial],
                     P.display)
        \* from the validation of the uploaded file on
        Validated(v) ==
            LET file1 == IF file.present THEN v.file ELSE file
                seen == [NoRun EXCEPT
                            !.click = click,
                            !.validated = file.present,
                            !.pos_before = file.pos,
                            !.pos_after = file1.pos,
                            !.valid = file.present /\ v.ok,
                            !.process_button = file.present /\ v.ok,
                            !.partial = partial]
                out == [ss |-> ss, file |-> file1, settings |-> settings,
                        fs |-> fsys, now |-> t, run |-> seen]
            IN  IF file.present /\ ~v.ok
                THEN [out EXCEPT !.run.display =
                                   <<Item("error", "invalid_pdf", <<v.msg>>, 0)>>]
                ELSE IF file.present /\ click = "process"
                THEN Processed(out, ProcessDocument(ss, file1, settings, fsys, t,
                                                    model_name, penv))
                ELSE MainArea(out, <<>>)
    IN  Validated(validate_pdf(file))

----------------------------------------------------------------------------
(* The session specification: the user's actions on the page, each of which *)
(* runs the script once.                                                    *)

\* what the backends do during a Process Document run; values a run does
\* not reach are held at their first value
NoProcessEnv ==
    [page_ok |-> TRUE, vctor_ok |-> TRUE, tctor_ok |-> TRUE, vfail |-> "none",
     tfail |-> "none", dv |-> 0, dt |-> 0]

\* the failures of build_index() the session specification draws: one that
\* leaves files behind and one that does not
SessionFails == {"load", "index"}

ProcessEnvs ==
    {[NoProcessEnv EXCEPT !.page_ok = FALSE],
     [NoProcessEnv EXCEPT !.vctor_ok = FALSE],
     [NoProcessEnv EXCEPT !.tctor_ok = FALSE]}
    \cup {[NoProcessEnv EXCEPT !.vfail = f, !.dv = d] :
            f \in SessionFails, d \in Durations}
    \cup {[NoProcessEnv EXCEPT !.tfail = f, !.dv = d, !.dt = e] :
            f \in SessionFails \cup {"none"}, d \in Durations, e \in Durations}

\* what the backends do during an Analyze Document run; values a run does
\* not reach are held at their first value
NoAnalyzeEnv ==
    [vq_ok |-> TRUE, tq_ok |-> TRUE, dvq |-> 0, dtq |-> 0, response |-> "answer",
     vnodes |-> <<>>, tnodes |-> <<>>]

AnalyzeEnvs ==
    {[NoAnalyzeEnv EXCEPT !.vq_ok = FALSE, !.dvq = d] : d \in Durations}
    \cup {[NoAnalyzeEnv EXCEPT !.tq_ok = FALSE, !.dvq = d, !.dtq = e, !.vnodes = n] :
            d \in Durations, e \in Durations, n \in NodeLists}
    \cup {[NoAnalyzeEnv EXCEPT !.dvq = d, !.dtq = e, !.vnodes = n, !.tnodes = o] :
            d \in Durations, e \in Durations, n \in NodeLists, o \in NodeLists}

Init ==
    /\ EngineSpecInit
    /\ TrackerSpecInit
    /\ session_state = InitialSession
    /\ uploaded_file = NoFile
    /\ run = [NoRun EXCEPT !.display = <<Item("info", "upload", <<>>, 0)>>]
    /\ UtilInit

\* one run of the script over the file `file`
RunScript(file, click, model_name, show_trace, penv, aenv) ==
    \E r \in {Main(session_state, file, Settings, fs, now, run.partial, click,
                  model_name, show_trace, penv, aenv)} :
        /\ r.now <= MaxClock
        /\ session_state' = r.ss
        /\ uploaded_file' = r.file
        /\ Settings' = r.settings
        /\ fs' = r.fs
        /\ now' = r.now
        /\ run' = r.run
        /\ UNCHANGED <<engines, built, failedBuild, lastBuilt, lastOp>>

\* the stream the script is handed: the framework keeps the UploadedFile of
\* the widget or hands out a new one over the same bytes
Handed(rewound) == IF rewound THEN seek0(uploaded_file) ELSE uploaded_file

\* the user picks a file in the uploader
Upload(data) ==
    RunScript([present |-> TRUE, data |-> data, pos |-> 0], "none", DefaultModel,
              FALSE, NoProcessEnv, NoAnalyzeEnv)

\* the user removes the file from the uploader
RemoveFile ==
    /\ uploaded_file.present
    /\ RunScript(NoFile, "none", DefaultModel, FALSE, NoProcessEnv, NoAnalyzeEnv)

\* any other widget change (the query text, the trace toggle, the model name)
Rerun(rewound) ==
    RunScript(Handed(rewound), "none", DefaultModel, FALSE, NoProcessEnv, NoAnalyzeEnv)

\* the user presses "Process Document", which the last run has shown
ClickProcess(rewound, model_name, penv) ==
    /\ run.process_button
    /\ RunScript(Handed(rewound), "process", model_name, FALSE, penv, NoAnalyzeEnv)

\* the user presses "Analyze Document", which the last run has shown (the
\* query text is not empty)
ClickAnalyze(rewound, show_trace, aenv) ==
    /\ run.analyze_button
    /\ RunScript(Handed(rewound), "analyze", DefaultModel, show_trace, NoProcessEnv, aenv)

Next ==
    \/ \E data \in Uploads : Upload(data) /\ UNCHANGED <<trackerVars, utilVars>>
    \/ RemoveFile /\ UNCHANGED <<trackerVars, utilVars>>
    \/ \E rewound \in BOOLEAN : Rerun(rewound) /\ UNCHANGED <<trackerVars, utilVars>>
    \/ \E rewound \in BOOLEAN, penv \in ProcessEnvs :
          ClickProcess(rewound, DefaultModel, penv) /\ UNCHANGED <<trackerVars, utilVars>>
    \/ \E rewound \in BOOLEAN, show_trace \in BOOLEAN, aenv \in AnalyzeEnvs :
          ClickAnalyze(rewound, show_trace, aenv) /\ UNCHANGED <<trackerVars, utilVars>>

Spec == Init /\ [][Next]_vars

EngineInitial ==
    /\ EngineSpecInit
    /\ TrackerSpecInit
    /\ session_state = InitialSession
    /\ uploaded_file = NoFile
    /\ run = NoRun
    /\ UtilInit

EngineSpec == EngineInitial /\ [][EngineNext]_vars

TrackerSpec == EngineInitial /\ [][TrackerNext]_vars

SourceTextSpec == EngineInitial /\ [][SourceTextNext]_vars

FormatSpec == EngineInitial /\ [][FormatNext]_vars

InstancesSpec == EngineInitial /\ [][InstancesNext]_vars

----------------------------------------------------------------------------
(* Properties of the engines, under EngineSpec *)

\* the temporary directory of instance e
DirOf(e) == fs[TempDirOf(engines[e].variant)]

\* C1: a query() made while no build_index() call on the instance has
\* returned (also after calls that raised) raises, returns no QueryResult
\* and does not reach the retrieval backend.
C1_QueryBeforeBuildRaises ==
    (lastOp.op = "query" /\ ~lastOp.wasBuilt)
        => (lastOp.outcome = "raise" /\ ~lastOp.backend)

\* C1, its case: a query on an instance whose only builds have raised
C1_Witness ==
    /\ lastOp.op = "query"
    /\ ~lastOp.wasBuilt
    /\ failedBuild[lastOp.e]

\* C2: is_initialized() is true exactly when a build_index() call on the
\* instance has returned; get_build_time() is 0 before that, never negative,
\* and afterwards what the most recent returning call returned; a call that
\* raises changes neither.
C2_InitializedAndBuildTime ==
    \A e \in Driven :
        /\ is_initialized(engines[e]) <=> built[e]
        /\ get_build_time(engines[e]) >= 0
        /\ ~built[e] => get_build_time(engines[e]) = 0
        /\ built[e] => get_build_time(engines[e]) = lastBuilt[e].ret
        /\ (lastOp.op = "build" /\ lastOp.e = e /\ lastOp.outcome = "raise")
              => /\ is_initialized(engines[e]) <=> lastOp.wasBuilt
                 /\ engines[e].index = lastBuilt[e].index
        /\ (lastOp.op = "build" /\ lastOp.e = e /\ lastOp.outcome = "return")
              => get_build_time(engines[e]) = lastOp.ret

\* C2, its case: a build that took time returned, and a later one raised
C2_Witness ==
    /\ lastOp.op = "build"
    /\ lastOp.outcome = "raise"
    /\ lastOp.wasBuilt
    /\ get_build_time(engines[lastOp.e]) > 0

\* C3: when build_index() returns or raises, the files it wrote and the
\* directory it made are gone.
C3_TemporaryFilesRemoved ==
    lastOp.op = "build"
        => /\ lastOp.madeDir => ~DirOf(lastOp.e).exists
           /\ \A i \in lastOp.wrote : i \notin DOMAIN DirOf(lastOp.e).files

\* C10 as claimed: a build_index() call on an instance that is already
\* built is rejected.
C10_RebuildRejected ==
    (lastOp.op = "build" /\ lastOp.wasBuilt) => lastOp.outcome = "raise"

\* C10 as amended: a build_index() call on an instance that is already built
\* runs like a first one.  It raises only where a step of the build fails; if
\* it returns, the index and the build time are those of this call; if it
\* raises, they are the ones of the last build that returned.
C10_RebuildRuns ==
    (lastOp.op = "build" /\ lastOp.wasBuilt)
        => LET self == engines[lastOp.e]
           IN  /\ lastOp.outcome = "raise"
                    <=> (lastOp.fail # "none" \/ DirOf(lastOp.e).exists)
               /\ lastOp.outcome = "return"
                    => /\ self.index.docs = lastOp.docs
                       /\ self.build_time = lastOp.ret
               /\ lastOp.outcome = "raise"
                    => /\ self.index = lastBuilt[lastOp.e].index
                       /\ self.build_time = lastBuilt[lastOp.e].ret

\* C10, its case: a second build on one instance returned
C10_Witness ==
    /\ lastOp.op = "build"
    /\ lastOp.wasBuilt
    /\ lastOp.outcome = "return"

----------------------------------------------------------------------------
(* Properties of the PerformanceTracker, under TrackerSpec *)

\* C8: after a scope named n has exited, by returning or by raising,
\* get_metric(n) is the elapsed time of the scope named n that exited last,
\* whatever was stored for n before, and the body's exception still leaves
\* the with statement; get_metric(n) is 0 while no scope named n has exited.
C8_MetricOfLastExit ==
    \A n \in OpNames :
        /\ get_metric(metrics, n) = IF lastExit[n].exited THEN lastExit[n].elapsed ELSE 0
        /\ n \in DOMAIN metrics <=> lastExit[n].exited
        /\ lastExit[n].propagated <=> lastExit[n].raised

\* C8, its case: a scope whose body raised replaced an earlier entry of its
\* name, while the other name has an entry of its own
C8_Witness ==
    /\ lastExit["vector_query"].raised
    /\ lastExit["vector_query"].replaced
    /\ lastExit["vector_query"].elapsed > 0
    /\ lastExit["tree_query"].exited
    /\ get_metric(metrics, "tree_query") # get_metric(metrics, "vector_query")

----------------------------------------------------------------------------
(* Properties of the session, under Spec *)

Shown(kinds) == {i \in DOMAIN run.display : run.display[i].kind \in kinds}

\* the time the run shows in the metric of engine `who`
MetricTime(who) ==
    LET i == CHOOSE j \in DOMAIN run.display :
                 run.display[j].kind = "metric_time" /\ run.display[j].who = who
    IN  run.display[i].time

\* C4: an Analyze Document step that finds the Vector or the Tree engine not
\* initialized shows the engines-not-ready error, calls neither query() and
\* records nothing in a PerformanceTracker.
C4_GateBeforeQueries ==
    (/\ run.analyzed
     /\ \/ ~is_initialized(session_state.vector_engine)
        \/ ~is_initialized(session_state.tree_engine))
        => /\ \E i \in Shown({"error"}) : run.display[i].who = "not_initialized"
           /\ Cardinality(Shown({"error"})) = 1
           /\ Shown(ResultKinds) = {}
           /\ run.calls = <<>>
           /\ ~run.tracker
           /\ run.metrics = EmptyMetrics

\* C4, its case: the step ran with the Vector engine built and the Tree
\* engine not
C4_Witness ==
    /\ run.analyzed
    /\ is_initialized(session_state.vector_engine)
    /\ ~is_initialized(session_state.tree_engine)

\* C5: the Vector query is made before the Tree query; when either raises,
\* the run shows one error and nothing of either result; results are shown
\* only when both queries have returned.
C5_AllOrNothing ==
    (run.analyzed /\ run.calls # <<>>)
        => /\ run.calls \in {<<"Vector">>, <<"Vector", "Tree">>}
           /\ Len(run.calls) = 1 => run.outcomes = <<"raise">>
           /\ (\E i \in DOMAIN run.outcomes : run.outcomes[i] = "raise")
                 => /\ Cardinality(Shown({"error"})) = 1
                    /\ Shown(ResultKinds) = {}
           /\ Shown(ResultKinds) # {} => run.outcomes = <<"return", "return">>

\* C5, its case: the Vector query returned and the Tree query raised
C5_Witness ==
    /\ run.analyzed
    /\ run.outcomes = <<"return", "raise">>

\* the label the claim gives: Vector on a tie
LabelTieVector(v, t) == IF v < t THEN "Vector" ELSE IF t < v THEN "Tree" ELSE "Vector"

\* the label with Tree on a tie
LabelTieTree(v, t) == IF v < t THEN "Vector" ELSE IF t < v THEN "Tree" ELSE "Tree"

\* C6 as claimed: the faster engine shown is Vector when it was faster, Tree
\* when it was faster, and Vector on a tie; the difference shown is
\* |vector_time - tree_time| and not negative.
C6_TieGoesToVector ==
    \A i \in Shown({"comparison"}) :
        /\ run.display[i].who = LabelTieVector(MetricTime("Vector"), MetricTime("Tree"))
        /\ run.display[i].time = Abs(MetricTime("Vector") - MetricTime("Tree"))
        /\ run.display[i].time >= 0

\* C6 as amended: as claimed, but with Tree on a tie.
C6_TieGoesToTree ==
    \A i \in Shown({"comparison"}) :
        /\ run.display[i].who = LabelTieTree(MetricTime("Vector"), MetricTime("Tree"))
        /\ run.display[i].time = Abs(MetricTime("Vector") - MetricTime("Tree"))
        /\ run.display[i].time >= 0

\* C6, its case: a comparison of two equal, positive times
C6_Witness ==
    /\ Shown({"comparison"}) # {}
    /\ MetricTime("Vector") = MetricTime("Tree")
    /\ MetricTime("Vector") > 0

\* C7: a Process Document run in which the Vector build returns and the Tree
\* build raises shows one error, and from then on no run shows anything of a
\* query result until a Process Document run builds both engines.
C7_NoResultsAfterPartialBuild ==
    /\ (run.processed /\ run.vbuild = "return" /\ run.tbuild = "raise")
          => Cardinality(Shown({"error"})) = 1
    /\ run.partial => Shown(ResultKinds) = {}

\* C7, its case: after such a run, with a document processed earlier, the
\* user presses Analyze Document and the step runs
C7_Witness ==
    /\ run.partial
    /\ run.analyzed
    /\ is_initialized(session_state.vector_engine)

\* C9: validate_pdf() leaves the stream at the position it found it at,
\* whatever it returns.
C9_PositionRestored ==
    run.validated => run.pos_after = run.pos_before

----------------------------------------------------------------------------
(* Properties of QueryResult, under SourceTextSpec *)

Separator == <<"\n---\n">>

\* C11: get_source_text() returns "No sources retrieved" for a result without
\* source nodes; otherwise the texts of the first min(3, n) nodes in their
\* order, with the separator line between each two and nowhere else.
C11_SourceText ==
    called = "get_source_text" =>
        LET n == result.source_nodes
        IN  /\ n = <<>> => source_text = <<"No sources retrieved">>
            /\ Len(n) = 1 => source_text = n[1]
            /\ Len(n) = 2 => source_text = n[1] \o Separator \o n[2]
            /\ Len(n) >= 3 =>
                  source_text = n[1] \o Separator \o n[2] \o Separator \o n[3]

\* C11, its case: four nodes, the fourth unlike the third, the second empty
C11_Witness ==
    /\ called = "get_source_text"
    /\ Len(result.source_nodes) = 4
    /\ result.source_nodes[4] # result.source_nodes[3]
    /\ result.source_nodes[2] = <<>>
    /\ Len(source_text) = 4

----------------------------------------------------------------------------
(* Properties of format_time, under FormatSpec *)

IsDigit(c) == \E i \in 1..10 : DigitChars[i] = c
DigitOf(c) == (CHOOSE i \in 1..10 : DigitChars[i] = c) - 1

\* the number a sequence of digits writes
RECURSIVE ToNat(_)
ToNat(ds) ==
    IF ds = <<>> THEN 0
    ELSE 10 * ToNat(SubSeq(ds, 1, Len(ds) - 1)) + DigitOf(ds[Len(ds)])

\* t is digits, a point and exactly w digits
IsFixed(t, w) ==
    /\ Len(t) >= w + 2
    /\ t[Len(t) - w] = "."
    /\ \A i \in (1..Len(t)) \ {Len(t) - w} : IsDigit(t[i])

\* the number such a text writes, in units of 10^-w
FixedValue(t, w) ==
    ToNat(SubSeq(t, 1, Len(t) - w - 1)) * Pow10(w)
        + ToNat(SubSeq(t, Len(t) - w + 1, Len(t)))

Without(t, k) == SubSeq(t, 1, Len(t) - k)

EndsWith(t, suffix) ==
    Len(t) >= Len(suffix) /\ SubSeq(t, Len(t) - Len(suffix) + 1, Len(t)) = suffix

\* the three renderings
IsMilliseconds(t) == EndsWith(t, <<"m", "s">>) /\ IsFixed(Without(t, 2), 1)
IsSeconds(t) == EndsWith(t, <<"s">>) /\ IsFixed(Without(t, 1), 2)
IsMinutes(t) ==
    \E i \in 2..Len(t) :
        /\ t[i] = "m"
        /\ i + 1 <= Len(t) /\ t[i + 1] = " "
        /\ \A j \in 1..(i - 1) : IsDigit(t[j])
        /\ EndsWith(t, <<"s">>)
        /\ IsFixed(SubSeq(t, i + 2, Len(t) - 1), 1)

MinutesOf(t) ==
    LET i == CHOOSE j \in 1..Len(t) : t[j] = "m" IN ToNat(SubSeq(t, 1, i - 1))
RestOf(t) ==
    LET i == CHOOSE j \in 1..Len(t) : t[j] = "m"
    IN  FixedValue(SubSeq(t, i + 2, Len(t) - 1), 1)

\* C12: format_time() of a duration that is not negative is of one rendering,
\* chosen by range: below 1 s the milliseconds, rounded to one decimal, and "ms";
\* from 1 s to below 60 s the seconds, rounded to two decimals, and "s"; from
\* 60 s on the whole minutes, "m ", and the remaining seconds, which lie in
\* [0, 60), rounded to one decimal, and "s".  0.5 gives "500.0ms", 1.234
\* gives "1.23s" and 75.4 gives "1m 15.4s".
C12_FormatByRange ==
    called = "format_time" =>
        /\ seconds < TicksPerSecond <=> IsMilliseconds(formatted)
        /\ (seconds >= TicksPerSecond /\ seconds < TicksPerMinute)
              <=> IsSeconds(formatted)
        /\ seconds >= TicksPerMinute <=> IsMinutes(formatted)
        /\ IsMilliseconds(formatted)
              => LET shown == 10 * FixedValue(Without(formatted, 2), 1)
                 IN  shown - seconds <= 5 /\ seconds - shown <= 5
        /\ IsSeconds(formatted)
              => LET shown == 1000 * FixedValue(Without(formatted, 1), 2)
                 IN  shown - seconds <= 500 /\ seconds - shown <= 500
        /\ IsMinutes(formatted)
              => LET rest == seconds % TicksPerMinute
                     shown == 10000 * RestOf(formatted)
                 IN  /\ MinutesOf(formatted) = seconds \div TicksPerMinute
                     /\ rest >= 0 /\ rest < TicksPerMinute
                     /\ shown - rest <= 5000 /\ rest - shown <= 5000
        /\ seconds = 50000 => formatted = <<"5", "0", "0", ".", "0", "m", "s">>
        /\ seconds = 123400 => formatted = <<"1", ".", "2", "3", "s">>
        /\ seconds = 7540000
              => formatted = <<"1", "m", " ", "1", "5", ".", "4", "s">>

\* C12, its case: a duration over a minute whose remaining seconds are
\* rounded at a tie
C12_Witness ==
    /\ called = "format_time"
    /\ seconds > TicksPerMinute
    /\ (seconds % TicksPerMinute) % 10000 = 5000
    /\ 10000 * RestOf(formatted) > seconds % TicksPerMinute

----------------------------------------------------------------------------
(* Properties of the session state, under Spec *)

\* C13: whenever session_state.document_processed is true, the Vector and
\* the Tree engine of the session are both built, and both from the text
\* that session_state.document_text holds.
C13_ProcessedMeansBuiltFromText ==
    session_state.document_processed =>
        /\ is_initialized(session_state.vector_engine)
        /\ is_initialized(session_state.tree_engine)
        /\ session_state.vector_engine.index.docs = <<session_state.document_text>>
        /\ session_state.tree_engine.index.docs = <<session_state.document_text>>

----------------------------------------------------------------------------
(* Properties of several engine instances, under InstancesSpec *)

\* C14: the language model an engine's build_index() or query() uses is the
\* one of the model_name the engine was constructed with, and the chunk size
\* of its build is the one of its variant, whatever other instances were
\* constructed in between.
C14_OwnConfiguration ==
    (lastOp.op \in {"build", "query"} /\ lastOp.outcome = "return")
        => /\ lastOp.llm = engines[lastOp.e].model_name
           /\ lastOp.op = "build"
                 => lastOp.chunk_size = ChunkSizeOf(engines[lastOp.e].variant)

====
